---- MODULE Spec2Model ----
(***************************************************************************)
(* HAL9001 backend: auth.py (password hashing, JWT issue/validate, the     *)
(* get_current_user guard), database.py (backend selection and scoped      *)
(* connections) and main.py (startup seeding, login, permission read and   *)
(* replace).                                                               *)
(*                                                                         *)
(* Time is counted in ticks, TicksPerSecond ticks to the second, so that   *)
(* the whole-second resolution of the JWT "exp" claim is visible.          *)
(***************************************************************************)
EXTENDS Integers, FiniteSets, Sequences, TLC

VARIABLES
    clock,          \* wall clock, in ticks
    SECRET_KEY,     \* auth.py: the process-wide signing key
    issued,         \* token service: the token handed out by create_access_token
    outcome,        \* token service: the last result of get_current_user
    DATABASE_URL,   \* database.py: kind of the configured connection descriptor
    USE_SQLITE,     \* database.py: TRUE when the embedded backend is selected
    pool,           \* database.py: the AsyncConnectionPool, or None
    starts,         \* how many times the process has been started
    app,            \* lifespan: "init", "up" (setup_database done) or "failed"
    users,          \* committed rows of table users
    perms,          \* committed rows of table user_table_permissions
    pc,             \* per request slot: position of the handler
    req,            \* per request slot: the request being served
    tx,             \* per request slot: the open transaction
    conn,           \* per request slot: the connection held
    resp,           \* per request slot: the response produced
    hist            \* per request slot, for a running replace: the grants its
                    \* user had when it arrived, and whether no other replace
                    \* for that user has run beside it

vars == <<clock, SECRET_KEY, issued, outcome, DATABASE_URL, USE_SQLITE, pool,
          starts, app, users, perms, pc, req, tx, conn, resp, hist>>

tokenVars == <<issued, outcome>>
dbConfigVars == <<DATABASE_URL, USE_SQLITE, pool, starts>>
storeVars == <<users, perms>>
procVars == <<pc, req, tx, conn, resp, hist>>

None == "None"

-----------------------------------------------------------------------------
(* Bounds of the model *)

TicksPerSecond == 2
MaxClock == 5
MaxStarts == 2

(* Program constants *)

ACCESS_TOKEN_EXPIRE_MINUTES == 30

DefaultKey == "a_very_secret_key_that_should_be_changed"
Keys == {DefaultKey, "another_key"}

Minutes(m) == m * 60 * TicksPerSecond

-----------------------------------------------------------------------------
(* auth.py: JWT handling.  A token is what jwt.encode produces: the claims *)
(* and the key that signed them; Garbage is a string that is no JWS.       *)

Garbage == [form |-> "garbage"]

\* dict.update({k: v}) on a copy of d
DictUpdate(d, k, v) == [x \in (DOMAIN d) \cup {k} |-> IF x = k THEN v ELSE d[x]]

\* dict.get(k, default)
DictGet(d, k, default) == IF k \in DOMAIN d THEN d[k] ELSE default

\* jose converts a datetime "exp" to whole seconds (timegm(utctimetuple()))
ToSeconds(t) == t \div TicksPerSecond

jwt_encode(claims, key) ==
    [form |-> "jws",
     claims |-> IF "exp" \in DOMAIN claims
                THEN DictUpdate(claims, "exp", ToSeconds(claims["exp"]))
                ELSE claims,
     sig |-> key]

\* A faulty variant, kept for comparison: timedelta(0) counts as given, and
\* an "exp" of the caller is kept
create_access_token_AsGiven(data, expires_delta, now, key) ==
    LET expire == IF expires_delta # <<>>
                  THEN now + expires_delta[1]
                  ELSE now + Minutes(ACCESS_TOKEN_EXPIRE_MINUTES)
        to_encode == IF "exp" \in DOMAIN data THEN data ELSE DictUpdate(data, "exp", expire)
    IN  jwt_encode(to_encode, key)

\* Optional[timedelta]: <<>> is None, <<d>> a timedelta of d ticks.
\* timedelta truthiness: None and timedelta(0) are falsy
create_access_token(data, expires_delta, now, key) ==
    LET expire == IF expires_delta # <<>> /\ expires_delta[1] # 0
                  THEN now + expires_delta[1]
                  ELSE now + Minutes(ACCESS_TOKEN_EXPIRE_MINUTES)
        to_encode == DictUpdate(data, "exp", expire)
    IN  jwt_encode(to_encode, key)

\* A faulty variant, kept for comparison: the signature is not verified
jwt_decode_NoVerify(token, key, now) ==
    IF token.form # "jws" THEN [err |-> "JWTError", payload |-> [x \in {} |-> 0]]
    ELSE IF "exp" \in DOMAIN token.claims /\ token.claims["exp"] < ToSeconds(now)
         THEN [err |-> "ExpiredSignatureError", payload |-> [x \in {} |-> 0]]
    ELSE [err |-> "", payload |-> token.claims]

\* the caller's mapping after create_access_token(data, ...): the function
\* updates a copy (to_encode = data.copy()), never data itself
DataAfterCreate(data, expires_delta, now) == data

\* jwt.decode: the payload, or the JWTError subclass it raises
jwt_decode(token, key, now) ==
    IF token.form # "jws" THEN [err |-> "JWTError", payload |-> [x \in {} |-> 0]]
    ELSE IF token.sig # key THEN [err |-> "JWTError", payload |-> [x \in {} |-> 0]]
    ELSE IF "exp" \in DOMAIN token.claims /\ token.claims["exp"] < ToSeconds(now)
         THEN [err |-> "ExpiredSignatureError", payload |-> [x \in {} |-> 0]]
    ELSE [err |-> "", payload |-> token.claims]

JWTErrors == {"JWTError", "ExpiredSignatureError", "JWTClaimsError"}

\* A faulty variant, kept for comparison: a payload without "sub" yields the empty subject, not None
decode_access_token_NoSubCheck(token, key, now) ==
    LET r == jwt_decode(token, key, now)
    IN  IF r.err \in JWTErrors THEN None
        ELSE DictGet(r.payload, "sub", "")

\* A faulty variant, kept for comparison: the expiry comparison one whole second early
decode_access_token_Early(token, key, now) ==
    LET r == jwt_decode(token, key, now + TicksPerSecond)
    IN  IF r.err \in JWTErrors THEN None
        ELSE DictGet(r.payload, "sub", None)

decode_access_token(token, key, now) ==
    LET r == jwt_decode(token, key, now)
    IN  IF r.err \in JWTErrors THEN None
        ELSE DictGet(r.payload, "sub", None)

credentials_exception ==
    [status_code |-> 401,
     detail |-> "Could not validate credentials",
     headers |-> "WWW-Authenticate: Bearer"]

\* fastapi's OAuth2PasswordBearer on a request without a bearer credential
not_authenticated ==
    [status_code |-> 401,
     detail |-> "Not authenticated",
     headers |-> "WWW-Authenticate: Bearer"]

NoToken == [form |-> "absent"]

OtherKey(k) == CHOOSE k2 \in Keys : k2 # k

WithoutSub(claims) == [x \in (DOMAIN claims) \ {"sub"} |-> claims[x]]

\* An exception that is no HTTPException reaches the boundary as a 500
ServerError(what) ==
    [status_code |-> 500, detail |-> what, headers |-> ""]

NoError == [status_code |-> 0, detail |-> "", headers |-> ""]

NoIssue == [token |-> NoToken, sub |-> None, ttl |-> 0, issued_at |-> 0]
NoOutcome == [token |-> NoToken, at |-> 0, user_id |-> None, error |-> NoError]

\* The ways a presented token fails validation, read off the token itself
Malformed(t) == t.form = "garbage"
BadSignature(t) == t.form = "jws" /\ t.sig # SECRET_KEY
Expired(t, at) == t.form = "jws" /\ t.sig = SECRET_KEY /\ t.claims["exp"] < ToSeconds(at)
MissingSub(t) == t.form = "jws" /\ "sub" \notin DOMAIN t.claims

\* A faulty variant, kept for comparison: the subject must be a row of users
get_current_user_Lookup(token, key, now) ==
    IF token = NoToken THEN [user_id |-> None, error |-> not_authenticated]
    ELSE LET user_id == decode_access_token(token, key, now)
         IN  IF user_id = None \/ ~(\E u \in users : u.id = user_id)
             THEN [user_id |-> None, error |-> credentials_exception]
             ELSE [user_id |-> user_id, error |-> NoError]

\* get_current_user behind oauth2_scheme: the subject, or the error raised
get_current_user(token, key, now) ==
    IF token = NoToken THEN [user_id |-> None, error |-> not_authenticated]
    ELSE LET user_id == decode_access_token(token, key, now)
         IN  IF user_id = None
             THEN [user_id |-> None, error |-> credentials_exception]
             ELSE [user_id |-> user_id, error |-> NoError]

-----------------------------------------------------------------------------
(* auth.py: password hashing.  A bcrypt hash is the salt it was made with  *)
(* and the secret it digests; NullHash is a NULL hashed_password column.   *)

Salts == {"salt_a"}

NullHash == [scheme |-> "null", salt |-> "", secret |-> ""]

get_password_hash(password, salt) ==
    [scheme |-> "bcrypt", salt |-> salt, secret |-> password]

\* passlib: verify(secret, None) is False
verify_password(plain_password, hashed_password) ==
    /\ hashed_password.scheme = "bcrypt"
    /\ hashed_password.secret = plain_password

-----------------------------------------------------------------------------
(* main.py: the mock data *)

MOCK_USERS ==
    << [id |-> "usr_001", name |-> "Dave Bowman", role |-> "Data Editor",
        email |-> "d.bowman@discovery.co"],
       [id |-> "usr_002", name |-> "Frank Poole", role |-> "Data Viewer",
        email |-> "f.poole@discovery.co"],
       [id |-> "usr_003", name |-> "Admin User", role |-> "Tenant Admin",
        email |-> "admin@discovery.co"],
       [id |-> "usr_004", name |-> "System Architect", role |-> "System Admin",
        email |-> "sysarch@system.co"] >>

MOCK_TABLES ==
    << "crew_vitals_log", "pod_bay_doors_status", "discovery_one_systems",
       "monolith_observations_secure", "mission_critical_data" >>

Flags(s, i, u, d) ==
    [can_select |-> s, can_insert |-> i, can_update |-> u, can_delete |-> d]

\* MOCK_INITIAL_PERMISSIONS, in the order its items are iterated
MOCK_INITIAL_PERMISSIONS ==
    << <<"usr_001", "crew_vitals_log", Flags(TRUE, TRUE, TRUE, FALSE)>>,
       <<"usr_001", "pod_bay_doors_status", Flags(TRUE, TRUE, TRUE, FALSE)>>,
       <<"usr_001", "discovery_one_systems", Flags(TRUE, FALSE, FALSE, FALSE)>>,
       <<"usr_002", "crew_vitals_log", Flags(TRUE, FALSE, FALSE, FALSE)>>,
       <<"usr_002", "discovery_one_systems", Flags(TRUE, FALSE, FALSE, FALSE)>>,
       <<"usr_003", "crew_vitals_log", Flags(TRUE, TRUE, TRUE, TRUE)>>,
       <<"usr_003", "pod_bay_doors_status", Flags(TRUE, TRUE, TRUE, TRUE)>>,
       <<"usr_003", "discovery_one_systems", Flags(TRUE, TRUE, TRUE, TRUE)>> >>

-----------------------------------------------------------------------------
(* The tables.  No statement reads the SERIAL id of user_table_permissions, *)
(* so a row is its user_id, table_name and flags; UNIQUE(user_id,          *)
(* table_name) keeps the rows of the committed table apart.                *)

PermRow(user_id, table_name, actions) ==
    [user_id |-> user_id, table_name |-> table_name,
     can_select |-> DictGet(actions, "can_select", FALSE),
     can_insert |-> DictGet(actions, "can_insert", FALSE),
     can_update |-> DictGet(actions, "can_update", FALSE),
     can_delete |-> DictGet(actions, "can_delete", FALSE)]

UserRow(user, hashed_password) ==
    [id |-> user.id, name |-> user.name, role |-> user.role, email |-> user.email,
     hashed_password |-> hashed_password]

HasKey(rows, user_id, table_name) ==
    \E r \in rows : r.user_id = user_id /\ r.table_name = table_name

\* INSERT INTO users ... ON CONFLICT (id) DO NOTHING, for MOCK_USERS[i..]
RECURSIVE SeedUsers(_, _, _)
SeedUsers(rows, i, hash) ==
    IF i > Len(MOCK_USERS) THEN rows
    ELSE LET user == MOCK_USERS[i]
         IN  IF \E r \in rows : r.id = user.id
             THEN SeedUsers(rows, i + 1, hash)
             ELSE SeedUsers(rows \cup {UserRow(user, hash)}, i + 1, hash)

\* INSERT INTO user_table_permissions ... ON CONFLICT (user_id, table_name)
\* DO NOTHING, for MOCK_INITIAL_PERMISSIONS[i..]
RECURSIVE SeedPermissions(_, _)
SeedPermissions(rows, i) ==
    IF i > Len(MOCK_INITIAL_PERMISSIONS) THEN rows
    ELSE LET g == MOCK_INITIAL_PERMISSIONS[i]
         IN  IF HasKey(rows, g[1], g[2])
             THEN SeedPermissions(rows, i + 1)
             ELSE SeedPermissions(rows \cup {PermRow(g[1], g[2], g[3])}, i + 1)

-----------------------------------------------------------------------------
(* database.py: backend selection at import, and the SQL each backend takes *)

UrlKinds == {"unset", "empty", "sqlite", "postgresql"}

\* USE_SQLITE = not DATABASE_URL or DATABASE_URL.startswith("sqlite")
UseSqliteAtImport(url) == url \in {"unset", "empty"} \/ url = "sqlite"

\* A faulty variant, kept for comparison: a failing constructor is caught
\* but the embedded backend is not selected
ModuleInit_NoFallback(url, ctorRaises) ==
    IF UseSqliteAtImport(url)
    THEN [USE_SQLITE |-> TRUE, pool |-> None]
    ELSE IF ctorRaises
         THEN [USE_SQLITE |-> FALSE, pool |-> None]
         ELSE [USE_SQLITE |-> FALSE, pool |-> "AsyncConnectionPool"]

\* the module body: the selected backend and the pool, given whether the
\* AsyncConnectionPool constructor raises
ModuleInit(url, ctorRaises) ==
    IF UseSqliteAtImport(url)
    THEN [USE_SQLITE |-> TRUE, pool |-> None]
    ELSE IF url \notin {"unset", "empty"}
         THEN IF ctorRaises
              THEN [USE_SQLITE |-> TRUE, pool |-> None]
              ELSE [USE_SQLITE |-> FALSE, pool |-> "AsyncConnectionPool"]
         ELSE [USE_SQLITE |-> TRUE, pool |-> None]

\* Constructs of main.py's statements that the embedded engine rejects:
\* "%s" placeholders, ADD COLUMN IF NOT EXISTS, cursor(row_factory=...)
SqliteRejects == {"pyformat", "add_column_if_not_exists", "cursor_row_factory"}

\* setup_database's statements, each with the constructs it uses and
\* whether it runs always or only when the users table is empty
SetupStatements ==
    { [sql |-> "CREATE TABLE users", uses |-> {}, when |-> "always"],
      [sql |-> "CREATE TABLE user_table_permissions", uses |-> {}, when |-> "always"],
      [sql |-> "ALTER TABLE users ADD COLUMN",
       uses |-> {"add_column_if_not_exists"}, when |-> "always"],
      [sql |-> "SELECT COUNT(*) FROM users", uses |-> {}, when |-> "always"],
      [sql |-> "INSERT INTO users", uses |-> {"pyformat"}, when |-> "is_empty"],
      [sql |-> "INSERT INTO user_table_permissions",
       uses |-> {"pyformat"}, when |-> "is_empty"] }

\* the constructs each request handler's storage code uses
HandlerUses(op) ==
    CASE op = "login" -> {"cursor_row_factory", "pyformat"}
      [] op = "users" -> {"cursor_row_factory"}
      [] op = "get" -> {"cursor_row_factory", "pyformat"}
      [] op = "replace" -> {"pyformat"}
      [] OTHER -> {}

Runs(backend, uses) == backend = "postgresql" \/ uses \cap SqliteRejects = {}

\* TRUE when every statement setup_database executes runs on the backend
SetupRuns(backend, is_empty) ==
    \A st \in SetupStatements :
        (st.when = "always" \/ is_empty) => Runs(backend, st.uses)

-----------------------------------------------------------------------------
(* Requests.  Each slot of Procs serves one request at a time; a handler   *)
(* is cut at its awaits (connection acquisition and each statement).       *)

Procs == {"r1", "r2"}

EmptyDict == [t \in {} |-> Flags(FALSE, FALSE, FALSE, FALSE)]

NoReq == [op |-> "none", token |-> NoToken, user_id |-> "", permissions |-> <<>>,
          email |-> "", password |-> "", body |-> <<>>]
NoTx == [targets |-> {}, deleted |-> {}, inserted |-> {}, next |-> 1]
NoBody == [access_token |-> NoToken, permissions |-> EmptyDict,
           updated_tables |-> <<>>, users |-> <<>>, tables |-> <<>>]
NoResp == [status_code |-> 0, detail |-> "", headers |-> "", body |-> NoBody]
NoHist == [pre |-> EmptyDict, alone |-> TRUE]

Ok(body) == [status_code |-> 200, detail |-> "", headers |-> "", body |-> body]
ErrorResponse(e) == [status_code |-> e.status_code, detail |-> e.detail,
                     headers |-> e.headers, body |-> NoBody]

\* Inputs of the requests
Emails == {"d.bowman@discovery.co", "nobody@discovery.co"}
Passwords == {"password", "wrong"}
TargetUsers == {"usr_002", "usr_004"}

\* Bearer tokens a caller may present at time now: signed by the service for
\* an existing subject and unexpired (also in the very second of expiry),
\* expired, signed with another key, without subject, no JWS, and none
BearerTokens(now, key) ==
    { jwt_encode([sub |-> "usr_003", exp |-> now], key),
      jwt_encode([sub |-> "usr_003", exp |-> now - TicksPerSecond], key) }
    \cup { jwt_encode([sub |-> "usr_003", exp |-> now + TicksPerSecond], OtherKey(key)),
           jwt_encode([exp |-> now + TicksPerSecond], key),
           Garbage, NoToken }

\* permissions payloads: the items of the JSON object in order, each a table
\* name and its flag dictionary (the last one leaves two flags out, and
\* differs from the second in the flags it gives the same table)
PermissionInputs ==
    { <<>>,
      << <<"crew_vitals_log", Flags(TRUE, FALSE, FALSE, FALSE)>> >>,
      << <<"pod_bay_doors_status", Flags(TRUE, TRUE, TRUE, TRUE)>>,
         <<"discovery_one_systems", Flags(TRUE, TRUE, FALSE, FALSE)>> >>,
      << <<"crew_vitals_log", [can_select |-> TRUE, can_insert |-> TRUE]>> >> }

\* bodies of the permission write: every payload for usr_002, who has
\* grants from the start, and one payload for usr_004, who has none
UpdateInputs ==
    { [user_id |-> "usr_002", permissions |-> g] : g \in PermissionInputs }
    \cup { [user_id |-> "usr_004",
            permissions |-> << <<"crew_vitals_log", Flags(TRUE, FALSE, FALSE, FALSE)>> >>] }

\* The body of the permission write as it arrives: JSON, each flag value
\* the text of a JSON value ("true" and "false" are the JSON booleans, a
\* text in quotes is a JSON string)
JsonFlags(flags) == [f \in DOMAIN flags |-> IF flags[f] THEN "true" ELSE "false"]

JsonBody(update) ==
    [user_id |-> update.user_id,
     permissions |-> [i \in DOMAIN update.permissions |->
                        <<update.permissions[i][1], JsonFlags(update.permissions[i][2])>>]]

\* the bodies of UpdateInputs
RequestBodies == {JsonBody(update) : update \in UpdateInputs}

\* further bodies: one that names a table outside MOCK_TABLES, one with the
\* string "yes" for a flag, one with the string "maybe", and one for a
\* user_id that is not in MOCK_USERS
OtherBodies ==
    { [user_id |-> "usr_004",
       permissions |-> << <<"hal_core_memory", JsonFlags(Flags(TRUE, FALSE, FALSE, FALSE))>> >>],
      [user_id |-> "usr_004",
       permissions |-> << <<"pod_bay_doors_status", [can_select |-> "\"yes\""]>> >>],
      [user_id |-> "usr_004",
       permissions |-> << <<"pod_bay_doors_status", [can_select |-> "\"maybe\""]>> >>],
      [user_id |-> "usr_999",
       permissions |-> << <<"crew_vitals_log", JsonFlags(Flags(TRUE, FALSE, FALSE, FALSE))>> >>] }

\* pydantic's validation of a bool field: booleans, the numbers 0 and 1 and
\* a fixed list of strings are taken, anything else is an error
BoolTrue == {"true", "1", "\"1\"", "\"on\"", "\"t\"", "\"true\"", "\"y\"", "\"yes\""}
BoolFalse == {"false", "0", "\"0\"", "\"off\"", "\"f\"", "\"false\"", "\"n\"", "\"no\""}

\* the response to a body that does not validate
RequestValidationError ==
    [status_code |-> 422, detail |-> "Input should be a valid boolean", headers |-> ""]

\* PermissionUpdate(**body): user_id: str, permissions: Dict[str, Dict[str, bool]].
\* Any string is taken as a table name and as a flag name.
PermissionUpdate(body) ==
    LET bad == {i \in DOMAIN body.permissions :
                   \E f \in DOMAIN body.permissions[i][2] :
                       body.permissions[i][2][f] \notin BoolTrue \cup BoolFalse}
    IN  [valid |-> bad = {},
         user_id |-> body.user_id,
         permissions |->
            IF bad # {} THEN <<>>
            ELSE [i \in DOMAIN body.permissions |->
                    <<body.permissions[i][1],
                      [f \in DOMAIN body.permissions[i][2] |->
                          body.permissions[i][2][f] \in BoolTrue]>>]]

\* the payload as the mapping the caller sent
DictOf(permissions) ==
    [t \in {permissions[i][1] : i \in DOMAIN permissions} |->
        permissions[CHOOSE i \in DOMAIN permissions : permissions[i][1] = t][2]]

\* list(update.permissions.keys())
UpdatedTables(permissions) == [i \in DOMAIN permissions |-> permissions[i][1]]

\* the mapping get_user_permissions builds from the fetched records
PermissionsDict(records) ==
    [t \in {r.table_name : r \in records} |->
        LET r == CHOOSE r \in records : r.table_name = t
        IN  Flags(r.can_select, r.can_insert, r.can_update, r.can_delete)]

\* A faulty variant, kept for comparison: the SELECT sees other transactions' uncommitted work
SelectPermissions_Dirty(user_id) ==
    LET gone == UNION {tx[q].deleted : q \in Procs}
        added == UNION {tx[q].inserted : q \in Procs}
    IN  {r \in perms : r.user_id = user_id /\ r \notin gone}
        \cup {r \in added : r.user_id = user_id}

\* SELECT ... FROM user_table_permissions WHERE user_id = %s (READ COMMITTED)
SelectPermissions(user_id) == {r \in perms : r.user_id = user_id}

\* the committed grants of a user, as a mapping
Stored(user_id) == PermissionsDict({r \in perms : r.user_id = user_id})

InFlight(q) == pc[q] \notin {"idle", "done"}
Writer(q, user_id) == req[q].op = "replace" /\ req[q].user_id = user_id /\ InFlight(q)

-----------------------------------------------------------------------------
(* Startup *)

\* A faulty variant, kept for comparison: the grants are cleared and written
\* anew at every start, and the users inserted unless they exist
setup_database_ResetsGrants ==
    /\ app = "init"
    /\ LET backend == IF USE_SQLITE THEN "sqlite" ELSE "postgresql"
       IN  IF (~USE_SQLITE /\ pool = None) \/ ~SetupRuns(backend, TRUE)
           THEN /\ app' = "failed"
                /\ UNCHANGED storeVars
           ELSE /\ app' = "up"
                /\ \E salt \in Salts :
                      users' = SeedUsers(users, 1, get_password_hash("password", salt))
                /\ perms' = SeedPermissions({}, 1)
    /\ UNCHANGED <<clock, SECRET_KEY, tokenVars, dbConfigVars, procVars>>

\* setup_database, run once by lifespan before any request is served.  It
\* raises when the backend rejects one of its statements; the application
\* then fails to start.
setup_database ==
    /\ app = "init"
    /\ LET backend == IF USE_SQLITE THEN "sqlite" ELSE "postgresql"
           is_empty == users = {}
       IN  IF (~USE_SQLITE /\ pool = None) \/ ~SetupRuns(backend, is_empty)
           THEN /\ app' = "failed"
                /\ UNCHANGED storeVars
           ELSE /\ app' = "up"
                /\ \E salt \in Salts :
                      LET default_password_hash == get_password_hash("password", salt)
                      IN  users' = IF is_empty
                                   THEN SeedUsers(users, 1, default_password_hash)
                                   ELSE users
                /\ perms' = IF is_empty THEN SeedPermissions(perms, 1) ELSE perms
    /\ UNCHANGED <<clock, SECRET_KEY, tokenVars, dbConfigVars, procVars>>

\* the primary backend cannot be reached while setup_database runs
setup_database_unavailable ==
    /\ app = "init"
    /\ ~USE_SQLITE
    /\ app' = "failed"
    /\ UNCHANGED <<clock, SECRET_KEY, tokenVars, dbConfigVars, storeVars, procVars>>

-----------------------------------------------------------------------------
(* Request arrival: the dependencies run, then the handler up to its first *)
(* await.                                                                  *)

frame == <<clock, SECRET_KEY, tokenVars, dbConfigVars, app>>

\* a protected request r arrives in slot p: get_current_user decides
\* whether the handler is called at all; first is the body's first position.
\* A request that is turned away never reaches the handler, and only its
\* operation and token are kept.
Guarded(p, r, first) ==
    LET g == get_current_user(r.token, SECRET_KEY, clock)
    IN  IF g.error # NoError
        THEN /\ req' = [req EXCEPT ![p] = [NoReq EXCEPT !.op = r.op, !.token = r.token]]
             /\ pc' = [pc EXCEPT ![p] = "done"]
             /\ resp' = [resp EXCEPT ![p] = ErrorResponse(g.error)]
        ELSE /\ req' = [req EXCEPT ![p] = r]
             /\ pc' = [pc EXCEPT ![p] = first]
             /\ UNCHANGED resp

login_for_access_token(p) ==
    /\ app = "up" /\ pc[p] = "idle"
    /\ \E email \in Emails, password \in Passwords :
          req' = [req EXCEPT ![p] =
                    [NoReq EXCEPT !.op = "login", !.email = email, !.password = password]]
    /\ pc' = [pc EXCEPT ![p] = "acquire"]
    /\ UNCHANGED <<frame, storeVars, tx, conn, resp, hist>>

get_all_users(p) ==
    /\ app = "up" /\ pc[p] = "idle"
    /\ \E token \in BearerTokens(clock, SECRET_KEY) :
          Guarded(p, [NoReq EXCEPT !.op = "users", !.token = token], "acquire")
    /\ UNCHANGED <<frame, storeVars, tx, conn, hist>>

\* no storage: the body returns MOCK_TABLES at once
get_all_tables(p) ==
    /\ app = "up" /\ pc[p] = "idle"
    /\ \E token \in BearerTokens(clock, SECRET_KEY) :
          LET r == [NoReq EXCEPT !.op = "tables", !.token = token]
              g == get_current_user(token, SECRET_KEY, clock)
          IN  /\ req' = [req EXCEPT ![p] = r]
              /\ pc' = [pc EXCEPT ![p] = "done"]
              /\ resp' = [resp EXCEPT ![p] =
                            IF g.error # NoError THEN ErrorResponse(g.error)
                            ELSE Ok([NoBody EXCEPT !.tables = MOCK_TABLES])]
    /\ UNCHANGED <<frame, storeVars, tx, conn, hist>>

get_user_permissions(p) ==
    /\ app = "up" /\ pc[p] = "idle"
    /\ \E token \in BearerTokens(clock, SECRET_KEY), user_id \in TargetUsers :
          Guarded(p, [NoReq EXCEPT !.op = "get", !.token = token, !.user_id = user_id],
                  "acquire")
    /\ UNCHANGED <<frame, storeVars, tx, conn, hist>>

\* get_current_user runs first; the body is validated next, and a body
\* that does not validate is answered 422 without the handler being called
update_user_permissions_with(p, bodies) ==
    /\ app = "up" /\ pc[p] = "idle"
    /\ \E token \in BearerTokens(clock, SECRET_KEY), body \in bodies :
          LET update == PermissionUpdate(body)
              authenticated == get_current_user(token, SECRET_KEY, clock).error = NoError
          IN  IF authenticated /\ ~update.valid
              THEN /\ req' = [req EXCEPT ![p] =
                                [NoReq EXCEPT !.op = "replace", !.token = token,
                                              !.user_id = body.user_id,
                                              !.body = body.permissions]]
                   /\ pc' = [pc EXCEPT ![p] = "done"]
                   /\ resp' = [resp EXCEPT ![p] = ErrorResponse(RequestValidationError)]
                   /\ UNCHANGED hist
              ELSE /\ Guarded(p, [NoReq EXCEPT !.op = "replace", !.token = token,
                                               !.user_id = update.user_id,
                                               !.permissions = update.permissions,
                                               !.body = body.permissions],
                              "acquire")
                   /\ hist' = IF ~authenticated
                              THEN hist
                              ELSE [q \in Procs |->
                                      IF q = p
                                      THEN [pre |-> Stored(update.user_id),
                                            alone |-> \A o \in Procs \ {p} :
                                                         ~Writer(o, update.user_id)]
                                      ELSE IF Writer(q, update.user_id)
                                           THEN [hist[q] EXCEPT !.alone = FALSE]
                                           ELSE hist[q]]
    /\ UNCHANGED <<frame, storeVars, tx, conn>>

update_user_permissions(p) == update_user_permissions_with(p, RequestBodies)

\* the permission write with any of the bodies
update_user_permissions_any(p) ==
    update_user_permissions_with(p, RequestBodies \cup OtherBodies)

-----------------------------------------------------------------------------
(* Handler bodies *)

\* an exception leaves the handler: the response is prepared, the scope of
\* get_db_connection is still to be left
Raise(p, what) ==
    /\ resp' = [resp EXCEPT ![p] = ErrorResponse(ServerError(what))]
    /\ pc' = [pc EXCEPT ![p] = "exit"]

\* get_db_connection up to its yield
get_db_connection(p) ==
    /\ pc[p] = "acquire"
    /\ IF USE_SQLITE
       THEN /\ conn' = [conn EXCEPT ![p] = "sqlite"]
            /\ pc' = [pc EXCEPT ![p] = IF req[p].op = "replace" THEN "delete" ELSE "query"]
            /\ UNCHANGED resp
       ELSE IF pool = None
       THEN /\ resp' = [resp EXCEPT ![p] =
                          ErrorResponse(ServerError("PostgreSQL pool not initialized"))]
            /\ pc' = [pc EXCEPT ![p] = "done"]
            /\ UNCHANGED conn
       ELSE /\ conn' = [conn EXCEPT ![p] = "postgresql"]
            /\ pc' = [pc EXCEPT ![p] = IF req[p].op = "replace" THEN "delete" ELSE "query"]
            /\ UNCHANGED resp
    /\ UNCHANGED <<frame, storeVars, req, tx, hist>>

invalid_credentials ==
    [status_code |-> 401, detail |-> "Incorrect email or password",
     headers |-> "WWW-Authenticate: Bearer"]

\* A faulty variant, kept for comparison: the password is not verified
login_response_NoVerify(user_rows, password, now, key) ==
    IF user_rows = {}
    THEN ErrorResponse(invalid_credentials)
    ELSE LET user == CHOOSE u \in user_rows : TRUE
         IN  Ok([NoBody EXCEPT !.access_token =
                    create_access_token([sub |-> user.id], <<>>, now, key)])

\* A faulty variant, kept for comparison: an unknown email is reported as such
login_response_NotFound(user_rows, password, now, key) ==
    IF user_rows = {}
    THEN ErrorResponse([invalid_credentials EXCEPT !.detail = "Unknown email"])
    ELSE LET user == CHOOSE u \in user_rows : TRUE
         IN  IF ~verify_password(password, user.hashed_password)
             THEN ErrorResponse(invalid_credentials)
             ELSE Ok([NoBody EXCEPT !.access_token =
                        create_access_token([sub |-> user.id], <<>>, now, key)])

\* login_for_access_token after fetchone(): user_rows holds the fetched row,
\* or nothing
login_response(user_rows, password, now, key) ==
    IF user_rows = {}
    THEN ErrorResponse(invalid_credentials)
    ELSE LET user == CHOOSE u \in user_rows : TRUE
         IN  IF ~verify_password(password, user.hashed_password)
             THEN ErrorResponse(invalid_credentials)
             ELSE Ok([NoBody EXCEPT !.access_token =
                        create_access_token([sub |-> user.id], <<>>, now, key)])

login_query(p) ==
    /\ pc[p] = "query" /\ req[p].op = "login"
    /\ IF ~Runs(conn[p], HandlerUses("login"))
       THEN Raise(p, "TypeError")
       ELSE /\ resp' = [resp EXCEPT ![p] =
                          login_response({u \in users : u.email = req[p].email},
                                         req[p].password, clock, SECRET_KEY)]
            /\ pc' = [pc EXCEPT ![p] = "exit"]
    /\ UNCHANGED <<frame, storeVars, req, tx, conn, hist>>

\* the collation of the user names, for ORDER BY name
NameOrder == <<"Admin User", "Dave Bowman", "Frank Poole", "System Architect">>

RECURSIVE OrderByName(_, _)
OrderByName(rows, i) ==
    IF i > Len(NameOrder) THEN <<>>
    ELSE (IF \E u \in rows : u.name = NameOrder[i]
          THEN LET u == CHOOSE u \in rows : u.name = NameOrder[i]
               IN  << [id |-> u.id, name |-> u.name, role |-> u.role, email |-> u.email] >>
          ELSE <<>>) \o OrderByName(rows, i + 1)

get_all_users_query(p) ==
    /\ pc[p] = "query" /\ req[p].op = "users"
    /\ IF ~Runs(conn[p], HandlerUses("users"))
       THEN Raise(p, "TypeError")
       ELSE /\ resp' = [resp EXCEPT ![p] = Ok([NoBody EXCEPT !.users = OrderByName(users, 1)])]
            /\ pc' = [pc EXCEPT ![p] = "exit"]
    /\ UNCHANGED <<frame, storeVars, req, tx, conn, hist>>

get_user_permissions_query(p) ==
    /\ pc[p] = "query" /\ req[p].op = "get"
    /\ IF ~Runs(conn[p], HandlerUses("get"))
       THEN Raise(p, "TypeError")
       ELSE /\ resp' = [resp EXCEPT ![p] =
                          Ok([NoBody EXCEPT !.permissions =
                                PermissionsDict(SelectPermissions(req[p].user_id))])]
            /\ pc' = [pc EXCEPT ![p] = "exit"]
    /\ UNCHANGED <<frame, storeVars, req, tx, conn, hist>>

-----------------------------------------------------------------------------
(* update_user_permissions: one transaction on the connection.  On the     *)
(* primary backend it runs at READ COMMITTED: a statement sees the rows    *)
(* committed when it starts, a DELETE waits for a row another transaction  *)
(* has deleted and skips it if that transaction commits, and an INSERT     *)
(* checks UNIQUE(user_id, table_name) against committed and in-flight rows.*)
(* tx[p].targets are the rows a waiting DELETE found, tx[p].deleted the    *)
(* rows the transaction has deleted (and so locked), tx[p].inserted the    *)
(* rows it has inserted.                                                   *)

\* A faulty variant, kept for comparison: the existing grants are not deleted (merge, not replace)
DeleteTargets_None(user_id) == {}

\* A faulty variant, kept for comparison: the DELETE has no WHERE clause
DeleteTargets_All(user_id) == perms

\* DELETE FROM user_table_permissions WHERE user_id = %s: the rows it finds
DeleteTargets(user_id) == {r \in perms : r.user_id = user_id}

LockedByOther(p, ids) == \E q \in Procs \ {p} : tx[q].deleted \cap ids # {}

AfterDelete(p) == IF Len(req[p].permissions) = 0 THEN "commit" ELSE "insert"

ExecDelete(p) ==
    /\ pc[p] = "delete"
    /\ IF ~Runs(conn[p], HandlerUses("replace"))
       THEN /\ Raise(p, "OperationalError")
            /\ UNCHANGED tx
       ELSE LET targets == DeleteTargets(req[p].user_id)
            IN  IF LockedByOther(p, targets)
                THEN /\ tx' = [tx EXCEPT ![p].targets = targets]
                     /\ pc' = [pc EXCEPT ![p] = "delete_wait"]
                     /\ UNCHANGED resp
                ELSE /\ tx' = [tx EXCEPT ![p].deleted = targets]
                     /\ pc' = [pc EXCEPT ![p] = AfterDelete(p)]
                     /\ UNCHANGED resp
    /\ UNCHANGED <<frame, storeVars, req, conn, hist>>

\* the blocked DELETE goes on once the rows it waits for are released: the
\* rows that are still there are deleted, the others are skipped
DeleteResume(p) ==
    /\ pc[p] = "delete_wait"
    /\ ~LockedByOther(p, tx[p].targets)
    /\ tx' = [tx EXCEPT ![p].deleted = tx[p].targets, ![p].targets = {}]
    /\ pc' = [pc EXCEPT ![p] = AfterDelete(p)]
    /\ UNCHANGED <<frame, storeVars, req, conn, resp, hist>>

\* A faulty variant, kept for comparison: the table has no UNIQUE(user_id,
\* table_name), so that no row ever stands in the way of an INSERT
LiveWithKey_None(p, user_id, table_name) == {}

\* committed rows with the key that this transaction has not deleted
LiveWithKey(p, user_id, table_name) ==
    {r \in perms : r.user_id = user_id /\ r.table_name = table_name
                   /\ r \notin tx[p].deleted}

\* the INSERT waits while another open transaction holds the key: it has
\* inserted a row with it, or deleted the committed row that has it
InsertBlocked(p, user_id, table_name) ==
    \E q \in Procs \ {p} :
        \/ HasKey(tx[q].inserted, user_id, table_name)
        \/ LiveWithKey(p, user_id, table_name) \cap tx[q].deleted # {}

\* one iteration of the loop over update.permissions.items()
ExecInsert(p) ==
    /\ pc[p] = "insert"
    /\ LET item == req[p].permissions[tx[p].next]
           user_id == req[p].user_id
           table_name == item[1]
           perms_ == item[2]
       IN  /\ ~InsertBlocked(p, user_id, table_name)
           /\ IF LiveWithKey(p, user_id, table_name) # {}
              THEN /\ Raise(p, "UniqueViolation")
                   /\ UNCHANGED tx
              ELSE /\ tx' = [tx EXCEPT
                               ![p].inserted = @ \cup
                                   {PermRow(user_id, table_name, perms_)},
                               ![p].next = @ + 1]
                   /\ pc' = [pc EXCEPT ![p] =
                               IF tx[p].next = Len(req[p].permissions)
                               THEN "commit" ELSE "insert"]
                   /\ UNCHANGED resp
    /\ UNCHANGED <<frame, storeVars, req, conn, hist>>

\* the table after the transaction t commits
CommitRows(rows, t) == (rows \ t.deleted) \cup t.inserted

\* A faulty variant, kept for comparison: work done before the failure stays (autocommit)
Rollback_KeepsWork(rows, t) == CommitRows(rows, t)

\* the table after the transaction t is rolled back
Rollback(rows, t) == rows

\* await conn.commit(), then the success envelope is built.  The rows the
\* transaction deleted are gone for good: a DELETE that waits for them will
\* skip them.
Commit(p) ==
    /\ pc[p] = "commit"
    /\ perms' = CommitRows(perms, tx[p])
    /\ tx' = [q \in Procs |->
                IF q = p THEN NoTx
                ELSE [tx[q] EXCEPT !.targets = @ \ tx[p].deleted]]
    /\ resp' = [resp EXCEPT ![p] =
                  Ok([NoBody EXCEPT !.updated_tables = UpdatedTables(req[p].permissions)])]
    /\ pc' = [pc EXCEPT ![p] = "exit"]
    /\ UNCHANGED <<frame, users, req, conn, hist>>

\* a statement or the commit raises: the backend or the connection fails,
\* or the backend cancels a waiting statement
BackendError(p) ==
    /\ pc[p] \in {"insert", "commit"}
    /\ Raise(p, "OperationalError")
    /\ UNCHANGED <<frame, storeVars, req, tx, conn, hist>>

\* A faulty variant, kept for comparison: a failed acquisition switches the
\* process to the embedded backend
AcquireError_FallsBack(p) ==
    /\ pc[p] = "acquire"
    /\ ~USE_SQLITE /\ pool # None
    /\ resp' = [resp EXCEPT ![p] = ErrorResponse(ServerError("PoolTimeout"))]
    /\ pc' = [pc EXCEPT ![p] = "done"]
    /\ USE_SQLITE' = TRUE /\ pool' = None
    /\ UNCHANGED <<clock, SECRET_KEY, tokenVars, DATABASE_URL, starts, app, storeVars,
                   req, tx, conn, hist>>

\* the pool cannot produce a connection
AcquireError(p) ==
    /\ pc[p] = "acquire"
    /\ ~USE_SQLITE /\ pool # None
    /\ resp' = [resp EXCEPT ![p] = ErrorResponse(ServerError("PoolTimeout"))]
    /\ pc' = [pc EXCEPT ![p] = "done"]
    /\ UNCHANGED <<frame, storeVars, req, tx, conn, hist>>

\* A faulty variant, kept for comparison: the connection is given back only
\* when the body returned
Release_LeakOnError(p) ==
    /\ pc[p] = "exit"
    /\ perms' = IF resp[p].status_code = 200 /\ conn[p] = "postgresql"
                THEN CommitRows(perms, tx[p])
                ELSE Rollback(perms, tx[p])
    /\ tx' = [tx EXCEPT ![p] = NoTx]
    /\ conn' = IF resp[p].status_code = 200 THEN [conn EXCEPT ![p] = "none"] ELSE conn
    /\ pc' = [pc EXCEPT ![p] = "done"]
    /\ hist' = [hist EXCEPT ![p].pre = EmptyDict]
    /\ UNCHANGED <<frame, users, req, resp>>

\* get_db_connection after its yield: the scope is left.  The pool's
\* connection block commits when the body returned and rolls back when it
\* raised; closing the embedded connection discards uncommitted work.
Release(p) ==
    /\ pc[p] = "exit"
    /\ perms' = IF resp[p].status_code = 200 /\ conn[p] = "postgresql"
                THEN CommitRows(perms, tx[p])
                ELSE Rollback(perms, tx[p])
    /\ tx' = [tx EXCEPT ![p] = NoTx]
    /\ conn' = [conn EXCEPT ![p] = "none"]
    /\ pc' = [pc EXCEPT ![p] = "done"]
    /\ hist' = [hist EXCEPT ![p].pre = EmptyDict]
    /\ UNCHANGED <<frame, users, req, resp>>

\* the response has been sent; the slot is free again
Finish(p) ==
    /\ pc[p] = "done"
    /\ pc' = [pc EXCEPT ![p] = "idle"]
    /\ req' = [req EXCEPT ![p] = NoReq]
    /\ resp' = [resp EXCEPT ![p] = NoResp]
    /\ hist' = [hist EXCEPT ![p] = NoHist]
    /\ UNCHANGED <<frame, storeVars, tx, conn>>

-----------------------------------------------------------------------------
(* The server *)

ServerClock == MaxClock

Init ==
    /\ clock = ServerClock
    /\ SECRET_KEY = DefaultKey
    /\ issued = NoIssue
    /\ outcome = NoOutcome
    /\ DATABASE_URL \in UrlKinds
    /\ \E ctorRaises \in BOOLEAN :
          /\ USE_SQLITE = ModuleInit(DATABASE_URL, ctorRaises).USE_SQLITE
          /\ pool = ModuleInit(DATABASE_URL, ctorRaises).pool
    /\ starts = 1
    /\ app = "init"
    /\ users = {}
    /\ perms = {}
    /\ pc = [p \in Procs |-> "idle"]
    /\ req = [p \in Procs |-> NoReq]
    /\ tx = [p \in Procs |-> NoTx]
    /\ conn = [p \in Procs |-> "none"]
    /\ resp = [p \in Procs |-> NoResp]
    /\ hist = [p \in Procs |-> NoHist]

Next ==
    \/ setup_database
    \/ setup_database_unavailable
    \/ \E p \in Procs :
          \/ login_for_access_token(p)
          \/ get_all_users(p)
          \/ get_all_tables(p)
          \/ get_user_permissions(p)
          \/ update_user_permissions(p)
          \/ get_db_connection(p)
          \/ AcquireError(p)
          \/ login_query(p)
          \/ get_all_users_query(p)
          \/ get_user_permissions_query(p)
          \/ ExecDelete(p)
          \/ DeleteResume(p)
          \/ ExecInsert(p)
          \/ Commit(p)
          \/ BackendError(p)
          \/ Release(p)
          \/ Finish(p)

Spec == Init /\ [][Next]_vars

\* The server with one request at a time, and every body for the permission
\* write
Sequential == {"r1"}

NextSequential ==
    \/ setup_database
    \/ setup_database_unavailable
    \/ \E p \in Sequential :
          \/ login_for_access_token(p)
          \/ get_all_users(p)
          \/ get_all_tables(p)
          \/ get_user_permissions(p)
          \/ update_user_permissions_any(p)
          \/ get_db_connection(p)
          \/ AcquireError(p)
          \/ login_query(p)
          \/ get_all_users_query(p)
          \/ get_user_permissions_query(p)
          \/ ExecDelete(p)
          \/ ExecInsert(p)
          \/ Commit(p)
          \/ BackendError(p)
          \/ Release(p)
          \/ Finish(p)

SpecSequential == Init /\ [][NextSequential]_vars

\* The process ends, with whatever its requests were doing, and is started
\* again: database.py is imported anew, the open transactions are lost, the
\* committed rows stay, and lifespan will run setup_database again.
Restart ==
    /\ app # "init"
    /\ starts < MaxStarts
    /\ starts' = starts + 1
    /\ app' = "init"
    /\ \E ctorRaises \in BOOLEAN :
          /\ USE_SQLITE' = ModuleInit(DATABASE_URL, ctorRaises).USE_SQLITE
          /\ pool' = ModuleInit(DATABASE_URL, ctorRaises).pool
    /\ pc' = [p \in Procs |-> "idle"]
    /\ req' = [p \in Procs |-> NoReq]
    /\ tx' = [p \in Procs |-> NoTx]
    /\ conn' = [p \in Procs |-> "none"]
    /\ resp' = [p \in Procs |-> NoResp]
    /\ hist' = [p \in Procs |-> NoHist]
    /\ UNCHANGED <<clock, SECRET_KEY, tokenVars, DATABASE_URL, storeVars>>

NextRestart == NextSequential \/ Restart

SpecRestart == Init /\ [][NextRestart]_vars

-----------------------------------------------------------------------------
(* Claims about the permission store, checked under Spec *)

FlagNames == {"can_select", "can_insert", "can_update", "can_delete"}

AllFlagsGiven(permissions) ==
    \A i \in DOMAIN permissions : DOMAIN permissions[i][2] = FlagNames

\* the grants a payload stands for once stored, as get returns them
StoredForm(user_id, permissions) ==
    PermissionsDict({PermRow(user_id, permissions[i][1], permissions[i][2])
                     : i \in DOMAIN permissions})

StoredIn(rows, user_id) == PermissionsDict({r \in rows : r.user_id = user_id})

Replied(p) == resp[p].status_code # 0
Succeeded(p) == resp[p].status_code = 200

\* slot p executes the SELECT of get_user_permissions in this step
ReadStep(p) ==
    /\ pc[p] = "query" /\ req[p].op = "get"
    /\ pc'[p] = "exit" /\ resp'[p].status_code = 200

\* slot p commits its replace in this step
CommitStep(p) ==
    /\ pc[p] = "commit" /\ req[p].op = "replace"
    /\ pc'[p] = "exit" /\ resp'[p].status_code = 200

\* C1: a get(u) that runs while a replace_all(u, G_new) is in flight (the
\* only replace for u running) returns the grants u had before the replace
\* or exactly G_new, never the emptied or a partly inserted set.
C1_ReaderSeesOldOrNew ==
    [][\A p \in Procs : ReadStep(p) =>
          \A q \in Procs \ {p} :
              (Writer(q, req[p].user_id) /\ hist[q].alone) =>
                  resp'[p].body.permissions \in
                      {hist[q].pre, StoredForm(req[q].user_id, req[q].permissions)}]_vars

\* a reader has been answered G_new, different from the grants before, while
\* the replace that committed it is still running
C1_Witness ==
    \E p \in Procs, q \in Procs :
        /\ req[p].op = "get" /\ pc[p] = "exit" /\ Succeeded(p)
        /\ Writer(q, req[p].user_id) /\ hist[q].alone
        /\ hist[q].pre # EmptyDict
        /\ Len(req[q].permissions) > 1
        /\ resp[p].body.permissions = StoredForm(req[q].user_id, req[q].permissions)
        /\ resp[p].body.permissions # hist[q].pre

\* C2: two replace_all calls for the same user that ran side by side and
\* both succeeded leave exactly the write set of one of them.
C2_LastCommitWins ==
    \A p \in Procs, q \in Procs :
        (/\ p # q
         /\ pc[p] = "done" /\ pc[q] = "done"
         /\ req[p].op = "replace" /\ req[q].op = "replace"
         /\ req[p].user_id = req[q].user_id
         /\ Succeeded(p) /\ Succeeded(q)
         /\ ~hist[p].alone /\ ~hist[q].alone)
        => Stored(req[p].user_id) \in
              {StoredForm(req[p].user_id, req[p].permissions),
               StoredForm(req[q].user_id, req[q].permissions)}

\* C3: a replace_all(u, G) with all four flags given, with no other replace
\* for u beside it, leaves get(u) = G when it commits.
C3_ReplaceNotMerge ==
    [][\A p \in Procs :
          (CommitStep(p) /\ hist[p].alone /\ AllFlagsGiven(req[p].permissions))
          => StoredIn(perms', req[p].user_id) = DictOf(req[p].permissions)]_vars

\* a replace has committed a write set that leaves out a table granted
\* before, and the table is gone
C3_Witness ==
    \E p \in Procs :
        /\ req[p].op = "replace" /\ pc[p] = "exit" /\ Succeeded(p)
        /\ hist[p].alone /\ AllFlagsGiven(req[p].permissions)
        /\ req[p].permissions # <<>>
        /\ (DOMAIN hist[p].pre) \ (DOMAIN DictOf(req[p].permissions)) # {}
        /\ Stored(req[p].user_id) = DictOf(req[p].permissions)

ManagedTables == {MOCK_TABLES[i] : i \in DOMAIN MOCK_TABLES}

\* the rows a payload stands for
PayloadRows(user_id, permissions) ==
    {PermRow(user_id, permissions[i][1], permissions[i][2]) : i \in DOMAIN permissions}

\* C10: the grants change only in the commit of a replace whose every row
\* has been inserted, so a replace that fails after its DELETE changes
\* nothing; and the success envelope appears only in that commit.
C10_NoPartialReplace ==
    [][/\ (app = "up" /\ perms' # perms) =>
              \E p \in Procs :
                  /\ CommitStep(p)
                  /\ tx[p].inserted = PayloadRows(req[p].user_id, req[p].permissions)
                  /\ PayloadRows(req[p].user_id, req[p].permissions) \subseteq perms'
       /\ \A p \in Procs :
              (req'[p].op = "replace" /\ resp'[p].status_code = 200
               /\ resp[p].status_code # 200)
              => /\ CommitStep(p)
                 /\ PayloadRows(req[p].user_id, req[p].permissions) \subseteq perms'
       /\ \A p \in Procs :
              (req[p].op = "replace" /\ Replied(p) /\ ~Succeeded(p))
              => perms' = perms \/ \E q \in Procs \ {p} : CommitStep(q)]_vars

\* a replace whose INSERT raised after its DELETE has ended, and its user's
\* grants are not the emptied set
C10_Witness ==
    \E p \in Procs :
        /\ req[p].op = "replace" /\ pc[p] = "done"
        /\ resp[p].detail = "UniqueViolation"
        /\ Stored(req[p].user_id) # EmptyDict

-----------------------------------------------------------------------------
(* Claims about login and the guard, checked under Spec *)

\* the user record the login request names, if its secret is the one the
\* stored hash was made from
VerifiedUsers(p) ==
    {u \in users : /\ u.email = req[p].email
                   /\ u.hashed_password.scheme = "bcrypt"
                   /\ u.hashed_password.secret = req[p].password}

\* C5: a token is returned only by a login whose email names a user record
\* and whose secret verifies against that record's hash, and its subject is
\* that user's id.
C5_TokenOnlyForVerifiedUser ==
    \A p \in Procs :
        resp[p].body.access_token # NoToken =>
            /\ req[p].op = "login"
            /\ \E u \in VerifiedUsers(p) :
                  /\ resp[p].body.access_token.form = "jws"
                  /\ resp[p].body.access_token.sig = SECRET_KEY
                  /\ resp[p].body.access_token.claims["sub"] = u.id

\* a login with the right secret has been given a token
C5_Witness ==
    \E p \in Procs :
        /\ req[p].op = "login" /\ Succeeded(p)
        /\ resp[p].body.access_token # NoToken
        /\ VerifiedUsers(p) # {}

\* the login of slot p got past the backend and was turned down
LoginRefused(p) ==
    req[p].op = "login" /\ Replied(p) /\ ~Succeeded(p) /\ resp[p].status_code # 500

\* C6: every login that fails on its credentials gets the same response,
\* whether the email is unknown or the secret wrong.
C6_OneLoginFailure ==
    /\ \A p \in Procs :
          (req[p].op = "login" /\ Replied(p) /\ resp[p].status_code # 500
           /\ VerifiedUsers(p) = {})
          => resp[p] = ErrorResponse(invalid_credentials)
    /\ \A p \in Procs, q \in Procs :
          (LoginRefused(p) /\ LoginRefused(q)) => resp[p] = resp[q]

\* a login with an unknown email and a login with a known email and a wrong
\* secret have both been turned down
C6_Witness ==
    \E p \in Procs, q \in Procs :
        /\ LoginRefused(p) /\ LoginRefused(q)
        /\ \A u \in users : u.email # req[p].email
        /\ \E u \in users : u.email = req[q].email
        /\ resp[p] = resp[q]

ProtectedOps == {"users", "tables", "get", "replace"}

\* the token validates: a JWS signed with the key, not expired, with a subject
Validates(t) ==
    /\ t.form = "jws"
    /\ t.sig = SECRET_KEY
    /\ ~(t.claims["exp"] < ToSeconds(clock))
    /\ "sub" \in DOMAIN t.claims

\* C7: a protected request whose token is absent or does not validate gets
\* the 401 with the Bearer challenge, holds no connection and no
\* transaction, returns no data, and its steps leave users and grants as
\* they are.
C7_GuardBeforeBody ==
    /\ [](\A p \in Procs :
            (req[p].op \in ProtectedOps /\ ~Validates(req[p].token)) =>
                /\ pc[p] = "done"
                /\ conn[p] = "none" /\ tx[p] = NoTx
                /\ resp[p].status_code = 401
                /\ resp[p].headers = "WWW-Authenticate: Bearer"
                /\ resp[p].body = NoBody)
    /\ [][\A p \in Procs :
            (req'[p].op \in ProtectedOps /\ ~Validates(req'[p].token)
             /\ <<pc[p], req[p]>> # <<pc'[p], req'[p]>>)
            => UNCHANGED storeVars]_vars

\* a permission write with an expired token and one with no token have been
\* turned away
C7_Witness ==
    \E p \in Procs, q \in Procs :
        /\ req[p].op = "replace" /\ Expired(req[p].token, clock)
        /\ resp[p].status_code = 401
        /\ req[q].op = "get" /\ req[q].token = NoToken
        /\ resp[q].status_code = 401

-----------------------------------------------------------------------------
(* Claims about the backend fallback, checked under Spec *)

\* the pool constructor raised and the embedded backend was taken instead
FellBack == DATABASE_URL = "postgresql" /\ USE_SQLITE

\* C9: after the fallback to the embedded backend the startup setup
\* succeeds, so that the application serves its requests.
C9_FallbackServes == FellBack => app # "failed"

\* C20: in every configuration exactly one of "embedded backend selected"
\* and "pool constructed" holds, and no request is ever answered from the
\* "PostgreSQL pool not initialized" branch of get_db_connection.
C20_ExactlyOneBackend ==
    /\ USE_SQLITE <=> pool = None
    /\ \A p \in Procs : resp[p].detail # "PostgreSQL pool not initialized"

\* the constructor raised: the embedded backend is selected, there is no
\* pool, and setup_database has run on that backend
C20_Witness ==
    /\ DATABASE_URL = "postgresql"
    /\ USE_SQLITE /\ pool = None
    /\ app = "failed"

\* C11: the backend chosen at import is never chosen again: no step of any
\* request (acquisition, acquisition failure, statement error, release)
\* changes USE_SQLITE or the pool, so no second pool is ever constructed and
\* every connection handed out comes from the backend selected at import.
C11_BackendSelectedOnce ==
    /\ [][UNCHANGED dbConfigVars]_vars
    /\ [](\A p \in Procs :
            conn[p] # "none" => conn[p] = IF USE_SQLITE THEN "sqlite" ELSE "postgresql")

\* on the primary backend one request holds a connection while the other
\* has failed to acquire one, and a statement error has been answered
C11_Witness ==
    \E p \in Procs, q \in Procs :
        /\ ~USE_SQLITE /\ pool # None
        /\ conn[p] = "postgresql" /\ resp[p].detail = "OperationalError"
        /\ pc[q] = "done" /\ resp[q].detail = "PoolTimeout"

-----------------------------------------------------------------------------
(* Further claims about the permission store, checked under Spec *)

\* the replace of slot p runs with no other replace for its user beside it,
\* and found the user's grants equal to its own write set: it repeats the
\* replace that wrote them
Repeats(p) ==
    /\ req[p].op = "replace" /\ hist[p].alone
    /\ req[p].permissions # <<>>
    /\ hist[p].pre = StoredForm(req[p].user_id, req[p].permissions)

\* C13: a replace_all(u, G) that follows a replace_all(u, G), so that it
\* finds get(u) = G, is not refused by the store (no statement of it hits
\* the unique key) and its commit leaves get(u) = G again.
C13_Idempotent ==
    /\ [](\A p \in Procs : Repeats(p) => resp[p].detail # "UniqueViolation")
    /\ [][\A p \in Procs :
            (CommitStep(p) /\ Repeats(p))
            => /\ StoredIn(perms', req[p].user_id) = hist[p].pre
               /\ perms' = perms]_vars

\* the second of two equal replaces has committed
C13_Witness ==
    \E p \in Procs :
        /\ Repeats(p) /\ pc[p] = "exit" /\ Succeeded(p)
        /\ Len(req[p].permissions) > 1
        /\ Stored(req[p].user_id) = StoredForm(req[p].user_id, req[p].permissions)

\* C15: the committed table never holds two rows for one (user_id,
\* table_name), after seeding and after any replaces, also concurrent ones;
\* and every entry get(u) returns is a committed row of u with these flags.
C15_UniqueKey ==
    /\ [](\A r1 \in perms, r2 \in perms :
            (r1.user_id = r2.user_id /\ r1.table_name = r2.table_name) => r1 = r2)
    /\ [][\A p \in Procs : ReadStep(p) =>
            \A t \in DOMAIN resp'[p].body.permissions :
                PermRow(req[p].user_id, t, resp'[p].body.permissions[t]) \in perms]_vars

\* two replaces for one user have run side by side, the second INSERT of
\* a key was refused, and a reader has been answered a table the user holds
C15_Witness ==
    \E p \in Procs, q \in Procs :
        /\ req[p].op = "replace" /\ resp[p].detail = "UniqueViolation"
        /\ req[q].op = "get" /\ Succeeded(q) /\ req[q].user_id = req[p].user_id
        /\ resp[q].body.permissions # EmptyDict
        /\ \E t \in ManagedTables \ DOMAIN resp[q].body.permissions : TRUE

-----------------------------------------------------------------------------
(* Claims about the frame of the permission write and about connections,   *)
(* checked under Spec                                                      *)

\* the positions of a handler inside the scope of get_db_connection
InScope == {"query", "delete", "delete_wait", "insert", "commit", "exit"}

\* the rows of the users other than user_id
OthersRows(rows, user_id) == {r \in rows : r.user_id # user_id}

\* C19: once the application is up, no step changes the users table, and
\* the grants change only in the commit of a replace, which leaves the rows
\* of every user but its own as they were; a replace that fails changes
\* no row at all.
C19_ReplaceFrame ==
    [][app = "up" =>
          /\ users' = users
          /\ perms' # perms =>
                \E p \in Procs :
                    /\ CommitStep(p)
                    /\ OthersRows(perms', req[p].user_id) = OthersRows(perms, req[p].user_id)
          /\ \A p \in Procs :
                (req[p].op = "replace" /\ pc[p] \in InScope /\ pc'[p] \notin InScope
                 /\ ~Succeeded(p)) => perms' = perms]_vars

\* a replace has changed the grants of its user while other users hold
\* grants, and a replace that failed has left the scope
C19_Witness ==
    \E p \in Procs, q \in Procs :
        /\ req[p].op = "replace" /\ pc[p] = "exit" /\ Succeeded(p)
        /\ Stored(req[p].user_id) # hist[p].pre
        /\ OthersRows(perms, req[p].user_id) # {}
        /\ req[q].op = "replace" /\ pc[q] = "done" /\ resp[q].status_code = 500

-----------------------------------------------------------------------------
(* Claims about what the permission write accepts, checked under           *)
(* SpecSequential                                                          *)

\* the payload names a table outside the managed list, or gives a flag a
\* value that is no JSON boolean
InvalidPayload(body) ==
    \E i \in DOMAIN body :
        \/ body[i][1] \notin ManagedTables
        \/ \E f \in DOMAIN body[i][2] : body[i][2][f] \notin {"true", "false"}

\* C12: a permission write with an invalid payload is answered with a
\* validation error and runs no statement: it never holds a connection or a
\* transaction.
C12_InvalidPayloadRejected ==
    \A p \in Procs :
        (req[p].op = "replace" /\ InvalidPayload(req[p].body)) =>
            /\ pc[p] = "done"
            /\ resp[p].status_code = 422
            /\ conn[p] = "none" /\ tx[p] = NoTx

\* C16: every grant row belongs to a user of the users table: a replace
\* for a user_id that has no row in users creates no grant row.
C16_GrantsReferenceUsers ==
    \A r \in perms : \E u \in users : u.id = r.user_id

-----------------------------------------------------------------------------
(* Claims about startup, checked under SpecRestart *)

\* lifespan runs setup_database in this step
SetupStep == app = "init" /\ app' # "init"

MockUserIds == {MOCK_USERS[i].id : i \in DOMAIN MOCK_USERS}

\* the grants of a user straight after the first seeding
SeededGrants(user_id) == StoredIn(SeedPermissions({}, 1), user_id)

\* C21: setup_database writes rows only when it finds the users table
\* empty, and then it writes the mock users and the mock grants; when the
\* table holds users, as at a restart, it leaves every user row and every
\* grant row as it is.
C21_SeedOnlyWhenEmpty ==
    [][SetupStep =>
          /\ users # {} => (users' = users /\ perms' = perms)
          /\ (users = {} /\ app' = "up") =>
                /\ {u.id : u \in users'} = MockUserIds
                /\ \A i \in DOMAIN MOCK_INITIAL_PERMISSIONS :
                      PermRow(MOCK_INITIAL_PERMISSIONS[i][1],
                              MOCK_INITIAL_PERMISSIONS[i][2],
                              MOCK_INITIAL_PERMISSIONS[i][3]) \in perms'
          /\ (users = {} /\ app' # "up") => (users' = users /\ perms' = perms)]_vars

\* the application is up again after a restart, and the grants of usr_002
\* and usr_004 are those that replaces wrote before it
C21_Witness ==
    /\ starts > 1 /\ app = "up"
    /\ \A p \in Procs : pc[p] = "idle"
    /\ Stored("usr_002") # SeededGrants("usr_002")
    /\ Stored("usr_004") # EmptyDict

-----------------------------------------------------------------------------
(* The token service on its own: one token is issued, the clock advances,  *)
(* and the token, or a token derived from it, is presented to the guard.   *)

Subjects == {"usr_001", "usr_003"}

\* expires_delta values handed to create_access_token, in ticks
Ttls == {1, TicksPerSecond, TicksPerSecond + 1, Minutes(30)}

\* What a caller can present in place of the token it was given
Presentable(t) ==
    {t, Garbage, NoToken,
     [t EXCEPT !.sig = OtherKey(t.sig)],
     [t EXCEPT !.claims = WithoutSub(t.claims)]}

JumpTicks == Minutes(31)

TokIssue ==
    /\ issued = NoIssue
    /\ \E u \in Subjects, ttl \in Ttls :
          issued' = [token |-> create_access_token([sub |-> u], <<ttl>>, clock, SECRET_KEY),
                     sub |-> u, ttl |-> ttl, issued_at |-> clock]
    /\ UNCHANGED <<clock, SECRET_KEY, outcome, dbConfigVars, app, storeVars, procVars>>

TokTick ==
    /\ clock % JumpTicks < MaxClock
    /\ clock' = clock + 1
    /\ UNCHANGED <<SECRET_KEY, tokenVars, dbConfigVars, app, storeVars, procVars>>

\* the simulated 31-minute clock advance
TokJump ==
    /\ clock < JumpTicks
    /\ clock' = clock + JumpTicks
    /\ UNCHANGED <<SECRET_KEY, tokenVars, dbConfigVars, app, storeVars, procVars>>

TokAuthorize ==
    /\ issued # NoIssue
    /\ \E t \in Presentable(issued.token) :
          LET r == get_current_user(t, SECRET_KEY, clock)
          IN  outcome' = [token |-> t, at |-> clock,
                          user_id |-> r.user_id, error |-> r.error]
    /\ UNCHANGED <<clock, SECRET_KEY, issued, dbConfigVars, app, storeVars, procVars>>

TokenInit ==
    /\ clock \in 0 .. 1
    /\ SECRET_KEY \in Keys
    /\ issued = NoIssue
    /\ outcome = NoOutcome
    /\ DATABASE_URL = "unset"
    /\ USE_SQLITE = TRUE
    /\ pool = None
    /\ starts = 1
    /\ app = "init"
    /\ users = {}
    /\ perms = {}
    /\ pc = [p \in Procs |-> "idle"]
    /\ req = [p \in Procs |-> NoReq]
    /\ tx = [p \in Procs |-> NoTx]
    /\ conn = [p \in Procs |-> "none"]
    /\ resp = [p \in Procs |-> NoResp]
    /\ hist = [p \in Procs |-> NoHist]

TokenNext == TokIssue \/ TokTick \/ TokJump \/ TokAuthorize

SpecToken == TokenInit /\ [][TokenNext]_vars

-----------------------------------------------------------------------------
(* Claims about the token service, checked under SpecToken *)

PresentedIssued == outcome # NoOutcome /\ outcome.token = issued.token /\ issued.ttl > 0

Accepted == outcome.user_id = issued.sub /\ outcome.error = NoError
Rejected == outcome.user_id = None /\ outcome.error = credentials_exception

\* C4 as stated: the token issued for u with ttl > 0 yields u at every clock
\* value up to issued_at + ttl and Invalid at every clock value after it.
C4_ExpiryAtExactInstant ==
    PresentedIssued =>
        IF outcome.at <= issued.issued_at + issued.ttl THEN Accepted ELSE Rejected

\* C4 amended: the token yields u at every clock value whose whole second is
\* not after the whole second of issued_at + ttl (so at every clock value up
\* to issued_at + ttl), and Invalid at every clock value whose whole second
\* is after it; the expiry is stored and compared in whole seconds.
C4_ExpiryInWholeSeconds ==
    PresentedIssued =>
        IF ToSeconds(outcome.at) <= ToSeconds(issued.issued_at + issued.ttl)
        THEN Accepted ELSE Rejected

\* the 30-minute token for usr_001, rejected after the 31-minute advance
C4_Witness ==
    /\ PresentedIssued
    /\ issued.sub = "usr_001"
    /\ issued.ttl = Minutes(30)
    /\ outcome.at >= issued.issued_at + Minutes(31)
    /\ Rejected

\* C8: a malformed, badly signed, expired or subject-less token always gives
\* the one Unauthenticated error of get_current_user, and no presented token
\* gives any other error than the 401 challenge.
C8_OneInvalidOutcome ==
    outcome # NoOutcome =>
        /\ (\/ Malformed(outcome.token)
            \/ BadSignature(outcome.token)
            \/ Expired(outcome.token, outcome.at)
            \/ MissingSub(outcome.token))
              => outcome.user_id = None /\ outcome.error = credentials_exception
        /\ outcome.error \in {NoError, credentials_exception, not_authenticated}

\* a correctly signed, unexpired token without "sub" has been rejected
C8_Witness ==
    /\ outcome # NoOutcome
    /\ MissingSub(outcome.token)
    /\ ~ BadSignature(outcome.token)
    /\ ~ Expired(outcome.token, outcome.at)
    /\ outcome.error = credentials_exception

-----------------------------------------------------------------------------
(* The token service beside a changing store and a changing key: the store *)
(* is set up, the grants of the token's subject are replaced, and the      *)
(* process is started again with another SECRET_KEY, while the client      *)
(* keeps the token it was given.                                           *)

\* update_user_permissions run on its own, from DELETE to commit
replace_all(rows, user_id, permissions) ==
    CommitRows(rows, [NoTx EXCEPT !.deleted = {r \in rows : r.user_id = user_id},
                                  !.inserted = PayloadRows(user_id, permissions)])

\* every grant of a token subject is taken away
TokReplace ==
    /\ app = "up"
    /\ \E u \in Subjects :
          /\ \E r \in perms : r.user_id = u
          /\ perms' = replace_all(perms, u, <<>>)
    /\ UNCHANGED <<clock, SECRET_KEY, tokenVars, dbConfigVars, app, users, procVars>>

\* SECRET_KEY is read from the environment at import: a restart with
\* another key
TokRotate ==
    /\ SECRET_KEY' = OtherKey(SECRET_KEY)
    /\ UNCHANGED <<clock, tokenVars, dbConfigVars, app, storeVars, procVars>>

TokenStoreInit ==
    /\ clock \in 0 .. 1
    /\ SECRET_KEY \in Keys
    /\ issued = NoIssue
    /\ outcome = NoOutcome
    /\ DATABASE_URL = "postgresql"
    /\ USE_SQLITE = ModuleInit(DATABASE_URL, FALSE).USE_SQLITE
    /\ pool = ModuleInit(DATABASE_URL, FALSE).pool
    /\ starts = 1
    /\ app = "init"
    /\ users = {}
    /\ perms = {}
    /\ pc = [p \in Procs |-> "idle"]
    /\ req = [p \in Procs |-> NoReq]
    /\ tx = [p \in Procs |-> NoTx]
    /\ conn = [p \in Procs |-> "none"]
    /\ resp = [p \in Procs |-> NoResp]
    /\ hist = [p \in Procs |-> NoHist]

TokenStoreNext ==
    \/ TokIssue
    \/ TokTick
    \/ TokJump
    \/ TokAuthorize
    \/ TokRotate
    \/ setup_database
    \/ TokReplace

SpecTokenStore == TokenStoreInit /\ [][TokenStoreNext]_vars

-----------------------------------------------------------------------------
(* Claims about the token service, checked under SpecTokenStore *)

\* what makes a token valid: its signature under the key, its expiry
\* against the time, and its subject
TokenValid(t, key, now) ==
    /\ t.form = "jws"
    /\ t.sig = key
    /\ ~(t.claims["exp"] < ToSeconds(now))
    /\ "sub" \in DOMAIN t.claims

\* C14: whatever the users table and the grants hold, the result of
\* get_current_user is fixed by the token, the key and the time: a valid
\* token yields its subject, any other token the one 401.
C14_Stateless ==
    [][outcome' # outcome =>
          LET t == outcome'.token
          IN  IF t = NoToken
              THEN outcome'.error = not_authenticated
              ELSE IF TokenValid(t, SECRET_KEY, clock)
              THEN outcome'.error = NoError /\ outcome'.user_id = t.claims["sub"]
              ELSE outcome'.error = credentials_exception /\ outcome'.user_id = None]_vars

\* a token has been accepted while the users table holds no row at all
C14_Witness ==
    /\ outcome # NoOutcome
    /\ outcome.error = NoError
    /\ outcome.user_id \in Subjects
    /\ users = {}

\* C18: the token issued under one key, presented after the key has been
\* replaced by another, is rejected, whatever its subject and its
\* remaining lifetime.
C18_RotationInvalidates ==
    [][(/\ outcome' # outcome
        /\ issued # NoIssue
        /\ outcome'.token = issued.token
        /\ issued.token.sig # SECRET_KEY)
       => outcome'.user_id = None /\ outcome'.error = credentials_exception]_vars

\* the 30-minute token, signed with the former key and not expired, has
\* been rejected
C18_Witness ==
    /\ issued # NoIssue
    /\ issued.ttl = Minutes(30)
    /\ outcome.token = issued.token
    /\ issued.token.sig # SECRET_KEY
    /\ ~(issued.token.claims["exp"] < ToSeconds(outcome.at))
    /\ outcome.error = credentials_exception

-----------------------------------------------------------------------------
(* create_access_token on its own: it is called with any of the data       *)
(* mappings and any of the expires_delta values, at any time.              *)

\* data mappings: without "exp", and with an "exp" of the caller's (a
\* datetime, in ticks)
IssueData ==
    { [sub |-> "usr_001"],
      [sub |-> "usr_001", exp |-> 0],
      [sub |-> "usr_003", exp |-> Minutes(60)] }

\* expires_delta: None, timedelta(0), positive ones (also under a second
\* and not a whole number of seconds), and a negative one
ExpiresDeltas ==
    { <<>>, <<0>>, <<1>>, <<TicksPerSecond>>, <<TicksPerSecond + 1>>,
      <<Minutes(15)>>, <<0 - TicksPerSecond>> }

NoCall == [token |-> NoToken, data |-> [sub |-> ""], expires_delta |-> <<>>,
           data_after |-> [sub |-> ""], issued_at |-> 0]

TokCreate ==
    /\ \E data \in IssueData, expires_delta \in ExpiresDeltas :
          issued' = [token |-> create_access_token(data, expires_delta, clock, SECRET_KEY),
                     data |-> data,
                     expires_delta |-> expires_delta,
                     data_after |-> DataAfterCreate(data, expires_delta, clock),
                     issued_at |-> clock]
    /\ UNCHANGED <<clock, SECRET_KEY, outcome, dbConfigVars, app, storeVars, procVars>>

IssueInit ==
    /\ clock \in 0 .. 1
    /\ SECRET_KEY \in Keys
    /\ issued = NoCall
    /\ outcome = NoOutcome
    /\ DATABASE_URL = "unset"
    /\ USE_SQLITE = TRUE
    /\ pool = None
    /\ starts = 1
    /\ app = "init"
    /\ users = {}
    /\ perms = {}
    /\ pc = [p \in Procs |-> "idle"]
    /\ req = [p \in Procs |-> NoReq]
    /\ tx = [p \in Procs |-> NoTx]
    /\ conn = [p \in Procs |-> "none"]
    /\ resp = [p \in Procs |-> NoResp]
    /\ hist = [p \in Procs |-> NoHist]

IssueNext == TokCreate \/ TokTick

SpecIssue == IssueInit /\ [][IssueNext]_vars

-----------------------------------------------------------------------------
(* Claims about create_access_token, checked under SpecIssue *)

\* the lifetime the service applies: expires_delta when it is given and not
\* zero, else the configured default
AppliedDelta(expires_delta) ==
    IF expires_delta # <<>> /\ expires_delta[1] # 0
    THEN expires_delta[1]
    ELSE Minutes(ACCESS_TOKEN_EXPIRE_MINUTES)

\* the token carries the caller's entries other than "exp", signed with the
\* key, and the caller's mapping is as it was
CarriesData ==
    /\ issued.token.form = "jws"
    /\ issued.token.sig = SECRET_KEY
    /\ DOMAIN issued.token.claims = (DOMAIN issued.data) \cup {"exp"}
    /\ \A k \in (DOMAIN issued.data) \ {"exp"} : issued.token.claims[k] = issued.data[k]
    /\ issued.data_after = issued.data

\* C22 as stated: the expiry in the token is the instant now +
\* expires_delta, or now + 30 minutes when expires_delta is absent or zero,
\* whatever "exp" the caller's data holds, and the data is not modified.
C22_ExpiryIsExactInstant ==
    issued # NoCall =>
        /\ issued.token.claims["exp"] * TicksPerSecond
              = issued.issued_at + AppliedDelta(issued.expires_delta)
        /\ CarriesData

\* C22 amended: the expiry in the token is the whole second of now +
\* expires_delta, or of now + 30 minutes when expires_delta is absent or
\* zero, whatever "exp" the caller's data holds, and the data is not
\* modified.
C22_ExpiryIsWholeSecond ==
    issued # NoCall =>
        /\ issued.token.claims["exp"]
              = ToSeconds(issued.issued_at + AppliedDelta(issued.expires_delta))
        /\ CarriesData

\* a call with timedelta(0) and a data mapping that has its own "exp" has
\* returned a token whose expiry is the default, not the caller's
C22_Witness ==
    /\ issued # NoCall
    /\ issued.expires_delta = <<0>>
    /\ "exp" \in DOMAIN issued.data
    /\ issued.token.claims["exp"] = ToSeconds(issued.issued_at + Minutes(30))
    /\ issued.token.claims["exp"] # ToSeconds(issued.data["exp"])

====
